---- MODULE Spec2Model ----
(***************************************************************************)
(* Model of the nutrition package: the meal planner                        *)
(* (nutrition/planner.py), the shopping-list aggregator                    *)
(* (nutrition/shopping.py) and the data model they share                   *)
(* (nutrition/models.py, nutrition/storage.py).                            *)
(*                                                                         *)
(* Python dicts are insertion ordered; a dict is modelled as a sequence of *)
(* records [k |-> key, v |-> value] with pairwise different keys.  A JSON  *)
(* object with optional members (an ingredient's dict) is a TLA+ record    *)
(* whose DOMAIN holds exactly the members that are present.                *)
(***************************************************************************)
EXTENDS Integers, Sequences, FiniteSets, TLC

\* ------------------------------------------------------------------ bounds
MaxDays == 3
MaxServings == 2
MaxRepeats == 2
MaxSeed == 0
MaxOtherDraws == 2
MaxOccurrences == 3

\* Python's None for an optional number; every modelled number is >= 0.
None == -1

\* State of the shared random source that no seed determines.
Entropy == -1

\* Size of the state space of the modelled pseudo-random generator.
RngMod == 8

\* ------------------------------------------------------- ordered dicts
DictKeys(d) == {d[i].k : i \in 1..Len(d)}

DictHas(d, key) == \E i \in 1..Len(d) : d[i].k = key

DictIndex(d, key) == CHOOSE i \in 1..Len(d) : d[i].k = key

DictGet(d, key) == d[DictIndex(d, key)].v

\* d.get(key, default)
DictGetOr(d, key, default) == IF DictHas(d, key) THEN DictGet(d, key) ELSE default

\* d[key] = value: an existing key keeps its position, a new key goes last
DictSet(d, key, value) ==
    IF DictHas(d, key)
    THEN [d EXCEPT ![DictIndex(d, key)] = [k |-> key, v |-> value]]
    ELSE Append(d, [k |-> key, v |-> value])

\* list(d.values())
DictValues(d) == [i \in 1..Len(d) |-> d[i].v]

\* ------------------------------------------------------- Python lists
ListContains(l, x) == \E i \in 1..Len(l) : l[i] = x

\* list.remove(x): drops the first element equal to x (the caller checks
\* that there is one; Python raises ValueError otherwise)
ListRemove(l, x) ==
    LET i == CHOOSE j \in 1..Len(l) : l[j] = x /\ \A h \in 1..(j - 1) : l[h] # x
    IN  SubSeq(l, 1, i - 1) \o SubSeq(l, i + 1, Len(l))

\* ------------------------------------------------------------- strings
\* str.lower() on the strings of the model
Lower(s) ==
    CASE s = "Eggs" -> "eggs"
      [] s = "Oats" -> "oats"
      [] s = "Toast" -> "toast"
      [] s = "Lunch" -> "lunch"
      [] s = "Y" -> "y"
      [] s = "R" -> "r"
      [] s = "Skip" -> "skip"
      [] OTHER -> s

\* str.strip() on the strings of the model
Strip(s) ==
    CASE s = " n " -> "n"
      [] s = " " -> ""
      [] OTHER -> s

\* ------------------------------------------------------------ models.py
MacroFields == {"calories", "protein", "fat", "carbs"}

\* Ingredient(...) with __post_init__
Ingredient(name, amount, unit, calories, protein, fat, carbs) ==
    [name |-> Lower(name), amount |-> amount, unit |-> unit,
     calories |-> calories, protein |-> protein, fat |-> fat, carbs |-> carbs]

IngredientToDictTruthy(ing) ==
    [f \in {"amount", "unit"} \cup {m \in MacroFields : ing[m] # None /\ ing[m] # 0} |-> ing[f]]

\* Ingredient.to_dict
IngredientToDict(ing) ==
    [f \in {"amount", "unit"} \cup {m \in MacroFields : ing[m] # None} |-> ing[f]]

\* dict.get(field) on an ingredient's dict
GetField(data, f) == IF f \in DOMAIN data THEN data[f] ELSE None

\* Ingredient.from_dict
IngredientFromDict(name, data) ==
    Ingredient(name, data.amount, data.unit, GetField(data, "calories"),
               GetField(data, "protein"), GetField(data, "fat"),
               GetField(data, "carbs"))

ScaleFieldUnscaled(x, multiplier) == x

\* models.py:63-66, one optional field
ScaleField(x, multiplier) == IF x # None THEN x * multiplier ELSE None

\* Ingredient.scale
IngredientScale(ing, multiplier) ==
    Ingredient(ing.name, ing.amount * multiplier, ing.unit,
               ScaleField(ing.calories, multiplier),
               ScaleField(ing.protein, multiplier),
               ScaleField(ing.fat, multiplier),
               ScaleField(ing.carbs, multiplier))

\* Course(...) with __post_init__; ingredients is a dict name -> Ingredient
Course(name, course_type, description, ingredients) ==
    [name |-> Lower(name), course_type |-> Lower(course_type),
     description |-> description, ingredients |-> ingredients]

\* Course.add_ingredient
AddIngredient(course, ing) ==
    [course EXCEPT !.ingredients = DictSet(@, ing.name, ing)]

\* Course.to_dict
CourseToDict(course) ==
    [description |-> course.description,
     ingridients |-> [i \in 1..Len(course.ingredients) |->
                        [k |-> course.ingredients[i].k,
                         v |-> IngredientToDict(course.ingredients[i].v)]]]

RECURSIVE AddScaled(_, _, _, _)
AddScaled(scaled, ings, i, servings) ==
    IF i > Len(ings) THEN scaled
    ELSE AddScaled(AddIngredient(scaled, IngredientScale(ings[i].v, servings)),
                   ings, i + 1, servings)

\* Course.scale_servings
ScaleServings(course, servings) ==
    AddScaled(Course(course.name, course.course_type, course.description, <<>>),
              course.ingredients, 1, servings)

\* ---------------------------------------------------- the stored catalog
Eggs ==
    AddIngredient(AddIngredient(Course("eggs", "breakfast", "Scrambled eggs", <<>>),
        Ingredient("eggs", 2, "pieces", 140, 12, 10, 1)),
        Ingredient("butter", 10, "g", 75, 0, 8, None))

Oats ==
    AddIngredient(AddIngredient(Course("oats", "breakfast", "Oatmeal", <<>>),
        Ingredient("oats", 50, "g", 190, 6, 3, 32)),
        Ingredient("milk", 200, "ml", None, None, None, None))

Toast ==
    AddIngredient(Course("toast", "breakfast", "", <<>>),
        Ingredient("bread", 2, "pieces", 160, None, 2, 30))

\* the same dish name as a breakfast recipe, stored under lunch
OatsLunch ==
    AddIngredient(AddIngredient(Course("Oats", "Lunch", "Savoury oats", <<>>),
        Ingredient("oats", 80, "g", 300, 10, 5, 50)),
        Ingredient("milk", 1, "cup", 10, None, None, None))

\* The catalogs load_courses can return: category -> name -> Course, the
\* names of one category pairwise different (add_course keys by name).
Catalogs ==
    { << [k |-> "breakfast", v |-> <<[k |-> "eggs", v |-> Eggs],
                                      [k |-> "oats", v |-> Oats],
                                      [k |-> "toast", v |-> Toast]>>] >>,
      << [k |-> "breakfast", v |-> <<[k |-> "eggs", v |-> Eggs],
                                      [k |-> "oats", v |-> Oats]>>],
         [k |-> "dinner", v |-> <<>>],
         [k |-> "lunch", v |-> <<[k |-> "oats", v |-> OatsLunch]>>] >> }

\* ----------------------------------------------------------- storage.py
\* CourseStorage.get_courses_by_type
GetCoursesByType(courses) ==
    [i \in 1..Len(courses) |-> [k |-> courses[i].k, v |-> DictValues(courses[i].v)]]

\* ---------------------------------------------------------- shopping.py
\* `x or 0`
OrZero(x) == IF x = None \/ x = 0 THEN 0 ELSE x

MergeFieldZeroFilled(existing, incoming) == OrZero(existing) + OrZero(incoming)

\* shopping.py:37-40, one macro field
MergeField(existing, incoming) ==
    IF existing # None \/ incoming # None
    THEN OrZero(existing) + OrZero(incoming)
    ELSE None

MergeAmountOverwritten(existing, incoming) == incoming

\* shopping.py:35
MergeAmount(existing, incoming) == existing + incoming

\* shopping.py:33-41
MergeIngredient(ing_name, existing, ingredient) ==
    Ingredient(ing_name, MergeAmount(existing.amount, ingredient.amount),
               existing.unit,
               MergeField(existing.calories, ingredient.calories),
               MergeField(existing.protein, ingredient.protein),
               MergeField(existing.fat, ingredient.fat),
               MergeField(existing.carbs, ingredient.carbs))

\* shopping.py:44
UnitKey(ing_name, unit) == ing_name \o "_" \o unit

\* shopping.py:27-47: one ingredient of one dish
AggregateIngredient(aggregated, ing_name, ing_data) ==
    LET ingredient == IngredientFromDict(ing_name, ing_data)
    IN  IF DictHas(aggregated, ing_name)
        THEN LET existing == DictGet(aggregated, ing_name)
             IN  IF existing.unit = ingredient.unit
                 THEN DictSet(aggregated, ing_name,
                              MergeIngredient(ing_name, existing, ingredient))
                 ELSE DictSet(aggregated, UnitKey(ing_name, ingredient.unit),
                              ingredient)
        ELSE DictSet(aggregated, ing_name, ingredient)

\* shopping.py:24 (and macros.py:69, models.py:103)
IngredientsData(dish_data) ==
    IF "ingridients" \in DOMAIN dish_data THEN dish_data.ingridients
    ELSE IF "ingredients" \in DOMAIN dish_data THEN dish_data.ingredients
    ELSE <<>>

RECURSIVE AggregateDish(_, _, _)
\* shopping.py:26-47
AggregateDish(aggregated, ingredients_data, i) ==
    IF i > Len(ingredients_data) THEN aggregated
    ELSE AggregateDish(AggregateIngredient(aggregated, ingredients_data[i].k,
                                           ingredients_data[i].v),
                       ingredients_data, i + 1)

RECURSIVE AggregateDishes(_, _, _)
\* shopping.py:22-47
AggregateDishes(aggregated, dishes, j) ==
    IF j > Len(dishes) THEN aggregated
    ELSE AggregateDishes(AggregateDish(aggregated, IngredientsData(dishes[j].v), 1),
                         dishes, j + 1)

RECURSIVE AggregateTypes(_, _, _)
\* shopping.py:18-47
AggregateTypes(aggregated, m, t) ==
    IF t > Len(m) THEN aggregated
    ELSE IF m[t].k = "nutrition_totals"
    THEN AggregateTypes(aggregated, m, t + 1)
    ELSE AggregateTypes(AggregateDishes(aggregated, m[t].v, 1), m, t + 1)

\* ShoppingListGenerator.aggregate_ingredients
AggregateIngredients(m) == DictValues(AggregateTypes(<<>>, m, 1))

\* ----------------------------------------------------------- planner.py
VARIABLES
    shopping_menu,  \* the menu document aggregate_ingredients is given
    shopping_list,  \* the list aggregate_ingredients returned
    shopping_pc,    \* "off", "ready" (not yet called) or "done" (returned)
    catalog,        \* the courses the storage holds: category -> name -> Course
    args,           \* the parameters of the generate_plan calls of this run
    rng,            \* state of the shared random source
    todo,           \* generate_plan calls the process still makes
    other_draws,    \* draws other code took from the random source since the last call
    plans,          \* the menus returned so far, one per call
    pc,             \* position inside generate_plan
    courses_by_type,\* planner.py:34-38, after filtering
    menu,           \* planner.py:40
    used_courses,   \* planner.py:41
    repeat_counts,  \* planner.py:42
    ti,             \* position of the loop over courses_by_type.items()
    day,            \* planner.py:51
    type_available, \* planner.py:49
    course,         \* the candidate selected for the current day
    placed,         \* history: the (category, day, name) placements of the call
    macros_result,  \* what calculate_plan_macros returned
    macros_pc,      \* "off", "ready" (not yet called) or "done" (returned)
    built,          \* a Course made by the constructor and add_ingredient calls
    copy,           \* Course.from_dict of built's to_dict
    models_pc,      \* "off", "building" or "done" (copy made)
    file,           \* the catalog file courses.json
    before,         \* history: the file when the last command started
    last,           \* history: the last command, "none", "load" or "add"
    loaded,         \* what the last load_courses returned
    writes,         \* history: the save_courses calls of the last command
    raised,         \* the last command ended in an exception
    exit_status,    \* what the last cmd_add returned (None: nothing)
    add_args,       \* history: the arguments of the last cmd_add
    commands        \* commands run so far

shopvars == <<shopping_menu, shopping_list, shopping_pc>>

planvars == <<catalog, args, rng, todo, other_draws, plans, pc, courses_by_type,
              menu, used_courses, repeat_counts, ti, day, type_available,
              course, placed>>

macrovars == <<macros_result, macros_pc>>

\* the variables of the components the planner and the aggregator leave alone
modelvars == <<built, copy, models_pc>>

storevars == <<file, before, last, loaded, writes, raised, exit_status, add_args, commands>>

restvars == <<macrovars, modelvars, storevars>>

vars == <<shopping_menu, shopping_list, shopping_pc, catalog, args, rng, todo, other_draws, plans, pc, courses_by_type,
          menu, used_courses, repeat_counts, ti, day, type_available, course,
          placed, restvars>>

\* value of `course` while nothing is selected
NoCourse == Course("", "", "", <<>>)

\* The modelled generator: random.seed(seed) fixes the state, every draw
\* advances it by one step and is a function of the new state.  A state no
\* seed determines (Entropy) can give any draw.
Step(s) == (5 * s + 3) % RngMod

SeedState(seed) == seed % RngMod

RandomSeedIgnored(r, seed) == r

\* planner.py:31-32
RandomSeed(r, seed) == IF seed # None THEN SeedState(seed) ELSE r

\* the indexes random.choice can return on a list of n elements
ChoiceIndexes(r, n) ==
    IF r = Entropy THEN 1..n ELSE {((Step(r) * n) \div RngMod) + 1}

\* a mistaken reading of planner.py:31-32: the source is seeded again
\* at every draw
AfterChoiceReseeded(r) == IF r = Entropy THEN Entropy ELSE SeedState(0)

\* random.choice advances the source by one draw
AfterChoice(r) == IF r = Entropy THEN Entropy ELSE Step(r)

Range(l) == {l[i] : i \in 1..Len(l)}

LowerAll(names) == [i \in 1..Len(names) |-> Lower(names[i])]

FilterCoursesRaw(courses, include, exclude) ==
    LET included == IF include # <<>>
                    THEN SelectSeq(courses, LAMBDA c : c.name \in Range(include))
                    ELSE courses
    IN  IF exclude # <<>>
        THEN SelectSeq(included, LAMBDA c : c.name \notin Range(exclude))
        ELSE included

\* planner.py:103-111, one category
FilterCourses(courses, include, exclude) ==
    LET included == IF include # <<>>
                    THEN SelectSeq(courses, LAMBDA c : c.name \in Range(LowerAll(include)))
                    ELSE courses
    IN  IF exclude # <<>>
        THEN SelectSeq(included, LAMBDA c : c.name \notin Range(LowerAll(exclude)))
        ELSE included

\* MealPlanner._apply_filters
ApplyFilters(cbt, include, exclude) ==
    [i \in 1..Len(cbt) |-> [k |-> cbt[i].k, v |-> FilterCourses(cbt[i].v, include, exclude)]]

\* planner.py:34-38
LoadAndFilter(courses, include, exclude) ==
    IF include # <<>> \/ exclude # <<>>
    THEN ApplyFilters(GetCoursesByType(courses), include, exclude)
    ELSE GetCoursesByType(courses)

\* planner.py:68 and 88
RepeatKey(c) == c.course_type \o ":" \o c.name

SkipsTypeNever(available_courses) == FALSE

\* planner.py:45
SkipsType(available_courses) == available_courses = <<>>

\* planner.py:52-55: the day is skipped
DaySkippedNever(pool) == FALSE

DaySkipped(pool) == pool = <<>> /\ args.no_reuse

\* planner.py:52-57: the pool the day draws from
RefillPool(pool, available_courses) ==
    IF pool = <<>> THEN available_courses ELSE pool

PoolAfterPlacingKept(pool, c) == pool

\* planner.py:83-85
PoolAfterPlacing(pool, c) == IF args.no_reuse THEN ListRemove(pool, c) ELSE pool

\* planner.py:87-89
CountsAfterPlacing(counts, c) ==
    IF args.max_repeats # None
    THEN DictSet(counts, RepeatKey(c), DictGetOr(counts, RepeatKey(c), 0) + 1)
    ELSE counts

\* a mistaken reading of planner.py:80: a second placement adds its
\* amounts to the entry
MenuAfterPlacingAccumulated(m, course_type, c) ==
    DictSet(m, course_type,
            DictSet(DictGet(m, course_type), c.name,
                    CourseToDict(ScaleServings(c,
                        IF DictHas(DictGet(m, course_type), c.name)
                        THEN 2 * args.servings ELSE args.servings))))

\* planner.py:79-80
MenuAfterPlacing(m, course_type, c) ==
    DictSet(m, course_type,
            DictSet(DictGet(m, course_type), c.name,
                    CourseToDict(ScaleServings(c, args.servings))))

CurrentType == courses_by_type[ti].k

AvailableCourses == courses_by_type[ti].v

\* the parameters generate_plan is called with
Filters ==
    { [include |-> <<>>, exclude |-> <<>>],
      [include |-> <<"Eggs", "oats">>, exclude |-> <<"Oats">>],
      [include |-> <<"oats", "Toast">>, exclude |-> <<>>],
      [include |-> <<>>, exclude |-> <<"eggs", "toast">>] }

ArgSets ==
    { [days |-> d, servings |-> s, no_reuse |-> n, max_repeats |-> m,
       seed |-> sd, interactive |-> i, include |-> f.include,
       exclude |-> f.exclude] :
        d \in 1..MaxDays, s \in {1, MaxServings}, n \in BOOLEAN,
        m \in {None, 1, MaxRepeats}, sd \in {None} \cup 0..MaxSeed,
        i \in BOOLEAN, f \in Filters }

ShoppingOff ==
    /\ shopping_menu = <<>>
    /\ shopping_list = <<>>
    /\ shopping_pc = "off"

\* calculate_plan_macros's result on no dish at all (macros.py:15-16, 35-38)
NoTotals ==
    [per_day |-> <<>>,
     overall |-> [calories |-> 0, protein |-> 0, fat |-> 0, carbs |-> 0]]

MacrosOff ==
    /\ macros_result = NoTotals
    /\ macros_pc = "off"

ModelsOff ==
    /\ built = NoCourse
    /\ copy = NoCourse
    /\ models_pc = "off"

\* a JSON object: its number-valued member version (None: no such member)
\* and its object-valued members in stored order
EmptyDoc == [version |-> None, members |-> <<>>]

\* storage.py:19: no file of that name
MissingFile == [exists |-> FALSE, valid |-> FALSE, object |-> FALSE, data |-> EmptyDoc]

\* cmd_add's arguments when it was not called
NoArgs == [name |-> "", type |-> "", ingredient |-> <<>>]

StorageIdle ==
    /\ before = file
    /\ last = "none"
    /\ loaded = <<>>
    /\ writes = 0
    /\ raised = FALSE
    /\ exit_status = None
    /\ add_args = NoArgs
    /\ commands = 0

StorageOff == file = MissingFile /\ StorageIdle

RestOff == MacrosOff /\ ModelsOff /\ StorageOff

PlannerInit(catalogs, calls, argset) ==
    /\ catalog \in catalogs
    /\ args \in argset
    /\ rng = Entropy
    /\ todo = calls
    /\ other_draws = 0
    /\ plans = <<>>
    /\ pc = "idle"
    /\ courses_by_type = <<>>
    /\ menu = <<>>
    /\ used_courses = {}
    /\ repeat_counts = <<>>
    /\ ti = 1
    /\ day = 0
    /\ type_available = <<>>
    /\ course = NoCourse
    /\ placed = <<>>

Init == PlannerInit(Catalogs, 1, ArgSets) /\ ShoppingOff /\ RestOff

\* Other code of the process draws from the shared random source between
\* two calls.  (A source in state Entropy stays in Entropy, so that a run
\* of a single call gains no behaviour by it.)
OtherDraw ==
    /\ pc = "idle"
    /\ todo > 0
    /\ other_draws < MaxOtherDraws
    /\ other_draws' = other_draws + 1
    /\ rng' = AfterChoice(rng)
    /\ UNCHANGED <<shopvars, restvars, catalog, args, todo, plans, pc, courses_by_type, menu,
                   used_courses, repeat_counts, ti, day, type_available,
                   course, placed>>

\* planner.py:31-42
GeneratePlan ==
    /\ pc = "idle"
    /\ todo > 0
    /\ rng' = RandomSeed(rng, args.seed)
    /\ courses_by_type' = LoadAndFilter(catalog, args.include, args.exclude)
    /\ menu' = <<>>
    /\ used_courses' = {}
    /\ repeat_counts' = <<>>
    /\ ti' = 1
    /\ day' = 0
    /\ type_available' = <<>>
    /\ course' = NoCourse
    /\ placed' = <<>>
    /\ pc' = "type"
    /\ UNCHANGED <<shopvars, restvars, catalog, args, todo, other_draws, plans>>

\* planner.py:44-49
ForCourseType ==
    /\ pc = "type"
    /\ ti <= Len(courses_by_type)
    /\ IF SkipsType(AvailableCourses)
       THEN /\ ti' = ti + 1
            /\ UNCHANGED <<menu, type_available, day, pc>>
       ELSE /\ menu' = DictSet(menu, CurrentType, <<>>)
            /\ type_available' = AvailableCourses
            /\ day' = 0
            /\ pc' = "day"
            /\ ti' = ti
    /\ UNCHANGED <<shopvars, restvars, catalog, args, rng, todo, other_draws, plans,
                   courses_by_type, used_courses, repeat_counts, course, placed>>

\* planner.py:91
ReturnMenu ==
    /\ pc = "type"
    /\ ti > Len(courses_by_type)
    /\ plans' = Append(plans, menu)
    /\ todo' = todo - 1
    /\ pc' = "idle"
    /\ UNCHANGED <<shopvars, restvars, catalog, args, rng, other_draws, courses_by_type, menu,
                   used_courses, repeat_counts, ti, day, type_available,
                   course, placed>>

\* the end of one iteration of the loop over days (also by `continue`)
EndDay ==
    IF day + 1 < args.days
    THEN day' = day + 1 /\ pc' = "day" /\ ti' = ti
    ELSE day' = 0 /\ pc' = "type" /\ ti' = ti + 1

\* planner.py:52-64 and 119: the day's pool and the first draw from it;
\* random.choice raises IndexError on an empty list
SelectCourse ==
    /\ pc = "day"
    /\ LET pool == RefillPool(type_available, AvailableCourses)
       IN  IF DaySkipped(type_available)
           THEN /\ EndDay
                /\ UNCHANGED <<rng, type_available, course>>
           ELSE IF pool = <<>>
           THEN /\ pc' = "raised"
                /\ UNCHANGED <<rng, type_available, course, ti, day>>
           ELSE /\ \E i \in ChoiceIndexes(rng, Len(pool)) : course' = pool[i]
                /\ rng' = AfterChoice(rng)
                /\ type_available' = pool
                /\ pc' = IF args.interactive THEN "prompt" ELSE "check"
                /\ UNCHANGED <<ti, day>>
    /\ UNCHANGED <<shopvars, restvars, catalog, args, todo, other_draws, plans, courses_by_type,
                   menu, used_courses, repeat_counts, placed>>

\* what the operator can type at the prompt
Responses == {"", "Y", " n ", "R", "Skip", "maybe"}

\* planner.py:122: .strip().lower()
Normalize(response) == Lower(Strip(response))

\* planner.py:128
Remaining(available_courses, c) ==
    SelectSeq(available_courses, LAMBDA o : o.name # c.name)

\* planner.py:124, 126, 135: the answers the loop knows
AcceptAnswers == {"", "y", "yes"}

RejectAnswers == {"n", "no", "r", "replace"}

SkipAnswers == {"x", "skip"}

\* the loop waits at input(): "prompt" with a new proposal, "reprompt"
\* after planner.py:138 answered an unrecognised response
Prompting == pc \in {"prompt", "reprompt"}

\* a mistaken reading of planner.py:137-138: the unrecognised answer draws
\* another proposal
RepromptRedrawn ==
    /\ pc' = "reprompt"
    /\ \E i \in ChoiceIndexes(rng, Len(type_available)) :
            course' = type_available[i]
    /\ rng' = AfterChoice(rng)
    /\ UNCHANGED <<ti, day, type_available>>

\* planner.py:137-138: the answer is none of the known ones; the loop
\* prints its hint and asks again about the same proposal
Reprompt ==
    /\ pc' = "reprompt"
    /\ UNCHANGED <<rng, course, ti, day, type_available>>

\* a mistaken reading of planner.py:135-136 and 61-62: the skipped proposal
\* leaves the pool
SkipDayRemoving ==
    /\ course' = NoCourse
    /\ type_available' = ListRemove(type_available, course)
    /\ EndDay
    /\ UNCHANGED rng

\* planner.py:135-136 and 61-62: None is returned and the day is left
SkipDay ==
    /\ course' = NoCourse
    /\ EndDay
    /\ UNCHANGED <<rng, type_available>>

\* a mistaken reading of planner.py:124-125: accepting draws once more
ReturnCourseRedrawn ==
    /\ pc' = "check"
    /\ \E i \in ChoiceIndexes(rng, Len(type_available)) :
            course' = type_available[i]
    /\ rng' = AfterChoice(rng)
    /\ UNCHANGED <<ti, day, type_available>>

\* planner.py:124-125: the proposal is returned as it was drawn
ReturnCourse ==
    /\ pc' = "check"
    /\ UNCHANGED <<rng, course, ti, day, type_available>>

\* planner.py:121-138 and 61-62: the operator's answer `response`
Answer(response) ==
    /\ Prompting
    /\ LET r == Normalize(response)
           remaining == Remaining(type_available, course)
       IN  IF r \in AcceptAnswers
           THEN ReturnCourse
           ELSE IF r \in RejectAnswers
           THEN IF remaining # <<>>
                THEN /\ \E i \in ChoiceIndexes(rng, Len(remaining)) :
                             course' = remaining[i]
                     /\ rng' = AfterChoice(rng)
                     /\ pc' = "prompt"
                     /\ UNCHANGED <<ti, day, type_available>>
                ELSE /\ pc' = "check"
                     /\ UNCHANGED <<rng, course, ti, day, type_available>>
           ELSE IF r \in SkipAnswers
           THEN SkipDay
           ELSE Reprompt
    /\ UNCHANGED <<shopvars, restvars, catalog, args, todo, other_draws, plans, courses_by_type,
                   menu, used_courses, repeat_counts, placed>>

\* the operator types one of the responses
Respond == \E response \in Responses : Answer(response)

\* planner.py:67-69
OverLimit(counts, c) ==
    /\ args.max_repeats # None
    /\ DictGetOr(counts, RepeatKey(c), 0) >= args.max_repeats

RefillAfterRemovalMissing(pool, available_courses) == pool

\* planner.py:72-75
RefillAfterRemoval(pool, available_courses) ==
    IF pool = <<>> /\ ~args.no_reuse THEN available_courses ELSE pool

\* planner.py:66-76: the candidate that goes on to be placed and the pool it
\* is taken from; list.remove raises ValueError when the element is missing
RepeatCheck ==
    LET keep == [raised |-> FALSE, skipped |-> FALSE, course |-> course,
                 pool |-> type_available, rng |-> rng]
    IN  IF ~OverLimit(repeat_counts, course) THEN {keep}
        ELSE IF ~ListContains(type_available, course)
        THEN {[keep EXCEPT !.raised = TRUE]}
        ELSE LET removed == ListRemove(type_available, course)
                 pool == RefillAfterRemoval(removed, AvailableCourses)
             IN  IF removed = <<>> /\ args.no_reuse
                 THEN {[keep EXCEPT !.skipped = TRUE, !.pool = removed]}
                 ELSE IF pool = <<>>
                 THEN {[keep EXCEPT !.raised = TRUE]}
                 ELSE {[keep EXCEPT !.course = pool[i], !.pool = pool,
                                    !.rng = AfterChoice(rng)] :
                          i \in ChoiceIndexes(rng, Len(pool))}

\* planner.py:66-89: repeat check, placement and tracking of one day
PlaceCourse ==
    /\ pc = "check"
    /\ \E o \in RepeatCheck :
        IF o.raised \/ (~o.skipped /\ args.no_reuse /\ ~ListContains(o.pool, o.course))
        THEN /\ pc' = "raised"
             /\ UNCHANGED <<rng, menu, used_courses, repeat_counts, ti, day,
                            type_available, course, placed>>
        ELSE IF o.skipped
        THEN /\ type_available' = o.pool
             /\ EndDay
             /\ UNCHANGED <<rng, menu, used_courses, repeat_counts, course, placed>>
        ELSE /\ course' = o.course
             /\ rng' = o.rng
             /\ menu' = MenuAfterPlacing(menu, CurrentType, o.course)
             /\ used_courses' = IF args.no_reuse
                                THEN used_courses \cup {o.course.name}
                                ELSE used_courses
             /\ type_available' = PoolAfterPlacing(o.pool, o.course)
             /\ repeat_counts' = CountsAfterPlacing(repeat_counts, o.course)
             /\ placed' = Append(placed, [type |-> CurrentType, day |-> day,
                                          name |-> o.course.name])
             /\ EndDay
    /\ UNCHANGED <<shopvars, restvars, catalog, args, todo, other_draws, plans, courses_by_type>>

Next ==
    \/ GeneratePlan
    \/ ForCourseType
    \/ SelectCourse
    \/ Respond
    \/ PlaceCourse
    \/ ReturnMenu

Spec == Init /\ [][Next]_vars

\* Two calls with the same parameters, a seed and no operator
InitTwice ==
    /\ PlannerInit(Catalogs, 2, {a \in ArgSets : a.seed # None /\ ~a.interactive})
    /\ ShoppingOff
    /\ RestOff

NextTwice ==
    \/ OtherDraw
    \/ GeneratePlan
    \/ ForCourseType
    \/ SelectCourse
    \/ PlaceCourse
    \/ ReturnMenu

SpecTwice == InitTwice /\ [][NextTwice]_vars

\* An operator who rejects every proposal (planner.py:126); the prompt is
\* answered as long as the loop waits for it
InitRejecting ==
    /\ PlannerInit(Catalogs, 1, {a \in ArgSets : a.interactive})
    /\ ShoppingOff
    /\ RestOff

Reject == \E response \in {" n ", "R"} : Answer(response)

NextRejecting ==
    \/ GeneratePlan
    \/ ForCourseType
    \/ SelectCourse
    \/ Reject
    \/ PlaceCourse
    \/ ReturnMenu

SpecRejecting == InitRejecting /\ [][NextRejecting]_vars /\ WF_vars(NextRejecting)

\* The same seeded call twice: first without an operator, then with an
\* operator who accepts every first proposal
InitModes ==
    /\ PlannerInit(Catalogs, 2, {a \in ArgSets : a.seed # None /\ ~a.interactive})
    /\ ShoppingOff
    /\ RestOff

\* the caller asks for the second plan with interactive=True
SwitchMode ==
    /\ pc = "idle"
    /\ Len(plans) = 1
    /\ ~args.interactive
    /\ args' = [args EXCEPT !.interactive = TRUE]
    /\ UNCHANGED <<shopvars, restvars, catalog, rng, todo, other_draws, plans, pc,
                   courses_by_type, menu, used_courses, repeat_counts, ti, day,
                   type_available, course, placed>>

AcceptAll == \E response \in {"", "Y"} : Answer(response)

NextModes ==
    \/ GeneratePlan
    \/ ForCourseType
    \/ SelectCourse
    \/ AcceptAll
    \/ PlaceCourse
    \/ ReturnMenu
    \/ SwitchMode

SpecModes == InitModes /\ [][NextModes]_vars

TypeOK ==
    /\ pc \in {"idle", "type", "day", "prompt", "reprompt", "check", "raised"}
    /\ todo \in 0..2
    /\ day \in 0..(args.days - 1)

\* ------------------------------------------------- claims on the planner
Min(a, b) == IF a < b THEN a ELSE b

\* the call has returned its menu
Returned == pc = "idle" /\ Len(plans) >= 1

\* number of days a recipe of a category was placed on
PlacedCount(course_type, name) ==
    Cardinality({i \in 1..Len(placed) :
                    placed[i].type = course_type /\ placed[i].name = name})

InLoop == pc \in {"day", "prompt", "reprompt", "check"}

\* C1: with no_reuse no recipe is placed on two days of one category, and a
\* placed recipe is not in the pool of its category afterwards.
C1_NoReuseNeverRepeats ==
    args.no_reuse =>
        /\ \A i, j \in 1..Len(placed) :
              (i < j /\ placed[i].type = placed[j].type)
                  => placed[i].name # placed[j].name
        /\ InLoop =>
              \A i \in 1..Len(placed) :
                  placed[i].type = CurrentType
                      => \A c \in Range(type_available) : c.name # placed[i].name

C1_Witness ==
    /\ Returned
    /\ args.no_reuse /\ args.interactive /\ args.max_repeats # None
    /\ args.days = 3
    /\ Len(placed) = 3
    /\ placed[2].type = "breakfast"
    /\ placed[3].type = "lunch"

\* C2 (as claimed): with max_repeats = k no recipe of a category with at
\* most `days` eligible recipes is placed on more than k days.
C2_RepeatBound ==
    args.max_repeats # None =>
        \A t \in 1..Len(courses_by_type) :
            args.days >= Len(courses_by_type[t].v) =>
                \A c \in Range(courses_by_type[t].v) :
                    /\ PlacedCount(courses_by_type[t].k, c.name) <= args.max_repeats
                    /\ DictGetOr(repeat_counts, RepeatKey(c), 0) <= args.max_repeats

\* C3: two calls with the same parameters and seed return the same menu,
\* whatever was drawn from the random source before each of them.
C3_SeededPlansEqual == Len(plans) = 2 => plans[1] = plans[2]

C3_Witness ==
    /\ Len(plans) = 2
    /\ other_draws = MaxOtherDraws
    /\ Len(plans[1]) = 2
    /\ Len(plans[1][1].v) >= 2

\* C4: with no_reuse, no operator and no max_repeats every category with
\* n >= 1 eligible recipes has exactly min(days, n) entries in the menu.
C4_NoReuseFillsCategory ==
    (Returned /\ args.no_reuse /\ ~args.interactive /\ args.max_repeats = None) =>
        \A t \in 1..Len(courses_by_type) :
            LET n == Len(courses_by_type[t].v)
                dishes == DictGetOr(plans[1], courses_by_type[t].k, <<>>)
            IN  n >= 1 =>
                  /\ Cardinality(DictKeys(dishes)) = Min(args.days, n)
                  /\ Len(dishes) = Min(args.days, n)
                  /\ args.days = n =>
                        DictKeys(dishes) = {c.name : c \in Range(courses_by_type[t].v)}

C4_Witness ==
    /\ Returned /\ args.no_reuse /\ ~args.interactive /\ args.max_repeats = None
    /\ args.days = 3
    /\ DictHas(plans[1], "breakfast")
    /\ Len(DictGet(plans[1], "breakfast")) = 3

\* C5: every recipe name in the menu is in the include list when that is
\* non-empty and not in the exclude list when that is non-empty, names
\* compared lower-cased.
C5_FiltersRespected ==
    \A t \in 1..Len(menu) : \A e \in 1..Len(menu[t].v) :
        LET name == Lower(menu[t].v[e].k)
        IN  /\ args.include # <<>> =>
                \E i \in 1..Len(args.include) : Lower(args.include[i]) = name
            /\ args.exclude # <<>> =>
                \A i \in 1..Len(args.exclude) : Lower(args.exclude[i]) # name

C5_Witness ==
    /\ Returned
    /\ args.include = <<"Eggs", "oats">> /\ args.exclude = <<"Oats">>
    /\ DictHas(menu, "breakfast")
    /\ DictKeys(DictGet(menu, "breakfast")) = {"eggs"}

\* C6: a category with no candidates after filtering has no key in the
\* menu; the categories with candidates have theirs, with at least one
\* entry when no operator is asked.
C6_EmptyCategoryOmitted ==
    /\ \A t \in 1..Len(courses_by_type) :
          courses_by_type[t].v = <<>> => ~DictHas(menu, courses_by_type[t].k)
    /\ Returned =>
          \A t \in 1..Len(courses_by_type) :
              courses_by_type[t].v # <<>> =>
                  /\ DictHas(plans[1], courses_by_type[t].k)
                  /\ ~args.interactive =>
                        DictGet(plans[1], courses_by_type[t].k) # <<>>

C6_Witness ==
    /\ Returned
    /\ \E t, u \in 1..Len(courses_by_type) :
          /\ t < u
          /\ courses_by_type[t].v = <<>>
          /\ DictHas(plans[1], courses_by_type[u].k)
          /\ DictGet(plans[1], courses_by_type[u].k) # <<>>

IngredientNames == {"milk", "milk_cup"}

Units == {"ml", "cup"}

Amounts == {1, 2}

MacroValues ==
    { [calories |-> None, protein |-> None, fat |-> None, carbs |-> None],
      [calories |-> 3, protein |-> 0, fat |-> None, carbs |-> 1],
      [calories |-> None, protein |-> 2, fat |-> 1, carbs |-> 0] }

IngredientDicts ==
    { IngredientToDict(Ingredient("", a, u, m.calories, m.protein, m.fat, m.carbs)) :
        a \in Amounts, u \in Units, m \in MacroValues }

\* one ingredient of one dish: name -> dict; "milk" takes every value, the
\* name that carries a unit suffix only the ones without macro fields
Occurrences ==
    {o \in [k : IngredientNames, v : IngredientDicts] :
        o.k = "milk" \/ DOMAIN o.v = {"amount", "unit"}}

OccurrenceLists == UNION {[1..n -> Occurrences] : n \in 0..MaxOccurrences}

\* the two spellings of the ingredient member (shopping.py:24)
Spellings == {"ingridients", "ingredients"}

DishOf(occurrence, i, spelling) ==
    [k |-> "dish" \o ToString(i),
     v |-> IF spelling = "ingridients"
           THEN [description |-> "", ingridients |-> <<occurrence>>]
           ELSE [description |-> "", ingredients |-> <<occurrence>>]]

\* a menu of two categories with one dish per listed ingredient
MenuOf(occurrences, spelling) ==
    LET half == Len(occurrences) \div 2
    IN  << [k |-> "breakfast",
            v |-> [i \in 1..half |-> DishOf(occurrences[i], i, spelling)]],
           [k |-> "lunch",
            v |-> [i \in 1..(Len(occurrences) - half) |->
                     DishOf(occurrences[half + i], half + i, spelling)]] >>

MenuDocuments == {MenuOf(o, sp) : o \in OccurrenceLists, sp \in Spellings}

\* generate_plan's defaults (planner.py:20-27)
DefaultArgs ==
    [days |-> 7, servings |-> 1, no_reuse |-> FALSE, max_repeats |-> None,
     seed |-> None, interactive |-> FALSE, include |-> <<>>, exclude |-> <<>>]

PlannerOff == PlannerInit({<<>>}, 0, {DefaultArgs})

InitShopping ==
    /\ PlannerOff
    /\ RestOff
    /\ shopping_menu \in MenuDocuments
    /\ shopping_list = <<>>
    /\ shopping_pc = "ready"

\* ShoppingListGenerator.aggregate_ingredients, called on the menu
AggregateCall ==
    /\ shopping_pc = "ready"
    /\ shopping_list' = AggregateIngredients(shopping_menu)
    /\ shopping_pc' = "done"
    /\ UNCHANGED <<shopping_menu, planvars, restvars>>

NextShopping == AggregateCall

SpecShopping == InitShopping /\ [][NextShopping]_vars

\* ---------------------------------------------- claims on the aggregator
\* the places <<category, dish, ingredient>> of the menu's ingredients
Places(m) ==
    UNION { UNION { { <<t, j, i>> : i \in 1..Len(IngredientsData(m[t].v[j].v)) } :
                    j \in 1..Len(m[t].v) } :
            t \in {u \in 1..Len(m) : m[u].k # "nutrition_totals"} }

PlaceName(m, p) == IngredientsData(m[p[1]].v[p[2]].v)[p[3]].k

PlaceData(m, p) == IngredientsData(m[p[1]].v[p[2]].v)[p[3]].v

RECURSIVE TotalAmount(_, _)
TotalAmount(m, places) ==
    IF places = {} THEN 0
    ELSE LET p == CHOOSE q \in places : TRUE
         IN  PlaceData(m, p).amount + TotalAmount(m, places \ {p})

Rows(name) == {r \in 1..Len(shopping_list) : shopping_list[r].name = name}

\* C8 (as claimed): one row per (name, unit) pair of the menu, its amount
\* the sum of the amounts of all occurrences of the pair.
C8_RowPerNameAndUnit ==
    shopping_pc = "done" =>
        LET P == Places(shopping_menu)
            pairs == {<<PlaceName(shopping_menu, p), PlaceData(shopping_menu, p).unit>> :
                        p \in P}
        IN  /\ Len(shopping_list) = Cardinality(pairs)
            /\ \A pr \in pairs :
                  \E r \in Rows(pr[1]) :
                      /\ shopping_list[r].unit = pr[2]
                      /\ shopping_list[r].amount =
                            TotalAmount(shopping_menu,
                                {p \in P : /\ PlaceName(shopping_menu, p) = pr[1]
                                           /\ PlaceData(shopping_menu, p).unit = pr[2]})

\* every ingredient name of the menu is used with a single unit
SingleUnits(m) ==
    \A p, q \in Places(m) :
        PlaceName(m, p) = PlaceName(m, q) => PlaceData(m, p).unit = PlaceData(m, q).unit

\* C9: when every name has a single unit, there is one row per name and its
\* amount is the sum of the amounts of all occurrences of the name.
C9_RowPerName ==
    (shopping_pc = "done" /\ SingleUnits(shopping_menu)) =>
        LET P == Places(shopping_menu)
            names == {PlaceName(shopping_menu, p) : p \in P}
        IN  /\ Len(shopping_list) = Cardinality(names)
            /\ \A n \in names :
                  /\ Cardinality(Rows(n)) = 1
                  /\ \A r \in Rows(n) :
                        shopping_list[r].amount =
                            TotalAmount(shopping_menu,
                                {p \in P : PlaceName(shopping_menu, p) = n})

C9_Witness ==
    /\ shopping_pc = "done"
    /\ Cardinality(Places(shopping_menu)) = 3
    /\ \A p \in Places(shopping_menu) :
          /\ PlaceName(shopping_menu, p) = "milk"
          /\ PlaceData(shopping_menu, p) = [amount |-> 2, unit |-> "ml"]
    /\ shopping_list = <<Ingredient("milk", 6, "ml", None, None, None, None)>>

\* C10 (as claimed): a name that occurs once in each of N different units
\* has N rows, one per occurrence, each with the occurrence's own values.
C10_RowPerUnit ==
    shopping_pc = "done" =>
        LET P == Places(shopping_menu)
        IN  \A n \in {PlaceName(shopping_menu, p) : p \in P} :
              LET Pn == {p \in P : PlaceName(shopping_menu, p) = n}
              IN  (\A p, q \in Pn :
                      p # q => PlaceData(shopping_menu, p).unit
                                  # PlaceData(shopping_menu, q).unit)
                  => /\ Cardinality(Rows(n)) = Cardinality(Pn)
                     /\ \A p \in Pn :
                           \E r \in Rows(n) :
                               shopping_list[r] =
                                   IngredientFromDict(n, PlaceData(shopping_menu, p))

\* the values of one macro field that are present among the places
RECURSIVE TotalField(_, _, _)
TotalField(m, places, f) ==
    IF places = {} THEN 0
    ELSE LET p == CHOOSE q \in places : TRUE
         IN  (IF f \in DOMAIN PlaceData(m, p) /\ PlaceData(m, p)[f] # None
              THEN PlaceData(m, p)[f] ELSE 0)
                 + TotalField(m, places \ {p}, f)

\* C11: in a row merged from same-unit occurrences each macro field is
\* absent exactly when every occurrence lacks it and is otherwise the sum
\* of the values that are present.
C11_MacroFieldsMerged ==
    (shopping_pc = "done" /\ SingleUnits(shopping_menu)) =>
        LET P == Places(shopping_menu)
        IN  \A n \in {PlaceName(shopping_menu, p) : p \in P} :
              LET Pn == {p \in P : PlaceName(shopping_menu, p) = n}
              IN  \A r \in Rows(n) : \A f \in MacroFields :
                    /\ shopping_list[r][f] = None
                          <=> \A p \in Pn : f \notin DOMAIN PlaceData(shopping_menu, p)
                    /\ shopping_list[r][f] # None
                          => shopping_list[r][f] = TotalField(shopping_menu, Pn, f)

C11_Witness ==
    /\ shopping_pc = "done"
    /\ SingleUnits(shopping_menu)
    /\ Cardinality(Places(shopping_menu)) = 3
    /\ Len(shopping_list) = 1
    /\ shopping_list[1].calories = 3
    /\ shopping_list[1].protein = 2
    /\ shopping_list[1].fat = 1
    /\ shopping_list[1].carbs = 1

\* ------------------------------------------------------------ macros.py
IsCategory(entry) == entry.k # "nutrition_totals"

\* macros.py:42-44: the menu without its side-car
MenuCategories(m) == SelectSeq(m, IsCategory)

MaxDishesOfFirst(m) == IF m = <<>> THEN 0 ELSE Len(m[1].v)

\* macros.py:50
MaxDishes(m) ==
    IF m = <<>> THEN 0
    ELSE LET lens == {Len(m[i].v) : i \in DOMAIN m}
         IN  CHOOSE n \in lens : \A k \in lens : k <= n

DayCountBeforeFilter(m) == MaxDishes(m)

\* macros.py:42-50: the number of days of the menu
DayCount(m) == MaxDishes(MenuCategories(m))

\* a mistaken reading of macros.py:54-59: only the first category is read
DayDishesOfFirst(m, d, i) ==
    IF m # <<>> /\ d < Len(m[1].v) THEN <<m[1].v[d + 1].v>> ELSE <<>>

RECURSIVE DayDishes(_, _, _)
\* macros.py:54-59: the dish each category holds at position day (from 0)
DayDishes(m, d, i) ==
    IF i > Len(m) THEN <<>>
    ELSE (IF d < Len(m[i].v) THEN <<m[i].v[d + 1].v>> ELSE <<>>)
            \o DayDishes(m, d, i + 1)

\* MacroCalculator._organize_by_days
OrganizeByDays(m) ==
    LET categories == MenuCategories(m)
    IN  IF categories = <<>> THEN <<>>
        ELSE [d \in 1..DayCount(m) |-> DayDishes(categories, d - 1, 1)]

\* macros.py:16, 22, 66
ZeroMacros == [calories |-> 0, protein |-> 0, fat |-> 0, carbs |-> 0]

\* macros.py:73-75
AddPresent(macros, ing_data) ==
    [f \in MacroFields |->
        IF f \in DOMAIN ing_data /\ ing_data[f] # None
        THEN macros[f] + ing_data[f]
        ELSE macros[f]]

RECURSIVE DishLoop(_, _, _)
\* macros.py:71-75
DishLoop(macros, ingredients_data, i) ==
    IF i > Len(ingredients_data) THEN macros
    ELSE DishLoop(AddPresent(macros, ingredients_data[i].v), ingredients_data, i + 1)

\* MacroCalculator._calculate_dish_macros
CalculateDishMacros(dish_data) ==
    DishLoop(ZeroMacros, IngredientsData(dish_data), 1)

AddMacrosOverwritten(totals, macros) == [f \in MacroFields |-> macros[f]]

\* macros.py:26-27, 32-33
AddMacros(totals, macros) == [f \in MacroFields |-> totals[f] + macros[f]]

RECURSIVE DayLoop(_, _, _)
\* macros.py:24-27
DayLoop(totals, day_dishes, i) ==
    IF i > Len(day_dishes) THEN totals
    ELSE DayLoop(AddMacros(totals, CalculateDishMacros(day_dishes[i])),
                 day_dishes, i + 1)

\* macros.py:22-29
DayTotals(day_index, day_dishes) ==
    LET t == DayLoop(ZeroMacros, day_dishes, 1)
    IN  [day_index |-> day_index, calories |-> t.calories,
         protein |-> t.protein, fat |-> t.fat, carbs |-> t.carbs]

RECURSIVE OverallLoop(_, _, _)
\* macros.py:21, 32-33
OverallLoop(overall_macros, daily_macros, i) ==
    IF i > Len(daily_macros) THEN overall_macros
    ELSE OverallLoop(AddMacros(overall_macros, daily_macros[i]), daily_macros, i + 1)

\* MacroCalculator.calculate_plan_macros
CalculatePlanMacros(m) ==
    LET days_data == OrganizeByDays(m)
        daily_macros == [i \in 1..Len(days_data) |-> DayTotals(i - 1, days_data[i])]
    IN  [per_day |-> daily_macros,
         overall |-> OverallLoop(ZeroMacros, daily_macros, 1)]

\* ----------------------------------------------- inputs of the calculator
MaxMenuDishes == 2

\* the dishes a stored plan can hold, by name
StoredDishes ==
    << [k |-> "eggs", v |-> CourseToDict(Eggs)],
       [k |-> "oats", v |-> CourseToDict(Oats)],
       [k |-> "toast", v |-> CourseToDict(Toast)],
       [k |-> "soup",
        v |-> [description |-> "legacy spelling",
               ingredients |-> <<[k |-> "stock",
                                  v |-> [amount |-> 1, unit |-> "l",
                                         calories |-> None, protein |-> 4]]>>]],
       [k |-> "water", v |-> [description |-> "no ingredients"]] >>

\* the dishes of one category: pairwise different names, in any order
DishLists ==
    UNION { {[i \in 1..n |-> StoredDishes[f[i]]] :
                f \in {g \in [1..n -> DOMAIN StoredDishes] :
                          \A i, j \in 1..n : i # j => g[i] # g[j]}} :
            n \in 0..MaxMenuDishes }

PlainMenus ==
    {<<>>} \cup {<<[k |-> "breakfast", v |-> b], [k |-> "lunch", v |-> l]>> :
                    b \in DishLists, l \in DishLists}

\* the side-car as a JSON object (cli.py:131-134)
TotalsToDict(totals) ==
    <<[k |-> "per_day", v |-> totals.per_day], [k |-> "overall", v |-> totals.overall]>>

\* planner.py:143-145: save_plan adds the side-car to a copy of the menu
WithTotals(m, nutrition_totals) ==
    Append(m, [k |-> "nutrition_totals", v |-> TotalsToDict(nutrition_totals)])

\* side-cars that belong to some other plan
StaleTotals ==
    { NoTotals,
      [per_day |-> <<[day_index |-> 0, calories |-> 7, protein |-> 0, fat |-> 1, carbs |-> 2],
                     [day_index |-> 1, calories |-> 1, protein |-> 1, fat |-> 0, carbs |-> 0],
                     [day_index |-> 2, calories |-> 0, protein |-> 0, fat |-> 0, carbs |-> 0]>>,
       overall |-> [calories |-> 8, protein |-> 1, fat |-> 1, carbs |-> 2]] }

StoredPlans ==
    PlainMenus
      \cup {WithTotals(m, CalculatePlanMacros(m)) : m \in PlainMenus}
      \cup {WithTotals(m, t) : m \in PlainMenus, t \in StaleTotals}

InitMacros ==
    /\ PlannerOff
    /\ shopping_menu \in StoredPlans
    /\ shopping_list = <<>>
    /\ shopping_pc = "ready"
    /\ macros_result = NoTotals
    /\ macros_pc = "ready"
    /\ ModelsOff
    /\ StorageOff

\* MacroCalculator.calculate_plan_macros, called on the stored plan
CalculateCall ==
    /\ macros_pc = "ready"
    /\ macros_result' = CalculatePlanMacros(shopping_menu)
    /\ macros_pc' = "done"
    /\ UNCHANGED <<shopvars, planvars, modelvars, storevars>>

NextMacros == AggregateCall \/ CalculateCall

SpecMacros == InitMacros /\ [][NextMacros]_vars

\* ---------------------------------------------- claims on the calculator
RECURSIVE RemoveKey(_, _)
RemoveKey(m, key) ==
    IF m = <<>> THEN <<>>
    ELSE (IF m[1].k = key THEN <<>> ELSE <<m[1]>>) \o RemoveKey(Tail(m), key)

HasTotals(m) == \E i \in DOMAIN m : m[i].k = "nutrition_totals"

\* C12: the aggregator and the calculator return on a menu that carries a
\* nutrition_totals side-car, whatever it holds, what they return on the
\* menu without that key.
C12_TotalsIgnored ==
    LET plain == RemoveKey(shopping_menu, "nutrition_totals")
    IN  /\ shopping_pc = "done" => shopping_list = AggregateIngredients(plain)
        /\ macros_pc = "done" => macros_result = CalculatePlanMacros(plain)

C12_Witness ==
    /\ shopping_pc = "done"
    /\ macros_pc = "done"
    /\ HasTotals(shopping_menu)
    /\ Len(DictGet(DictGet(shopping_menu, "nutrition_totals"), "per_day")) = 3
    /\ Len(macros_result.per_day) = 1
    /\ macros_result.overall.calories = 215
    /\ Len(shopping_list) = 2

\* the names of a category's dishes in stored order
DishNames(m, course_type) ==
    [i \in 1..Len(DictGet(m, course_type)) |-> DictGet(m, course_type)[i].k]

\* C13: per_day has one element per position up to the longest category,
\* element i carries day_index i and the macros of the i-th stored entry of
\* every category that has more than i entries; a menu without categories
\* gives no days and zero totals.
C13_DaysByPosition ==
    macros_pc = "done" =>
        LET m == shopping_menu
            cats == {t \in DOMAIN m : m[t].k # "nutrition_totals"}
            per_day == macros_result.per_day
        IN  /\ \A t \in cats : Len(m[t].v) <= Len(per_day)
            /\ Len(per_day) > 0 => \E t \in cats : Len(m[t].v) = Len(per_day)
            /\ \A i \in DOMAIN per_day :
                  /\ per_day[i].day_index = i - 1
                  /\ DOMAIN per_day[i] = MacroFields \cup {"day_index"}
                  /\ \A f \in MacroFields :
                        per_day[i][f] = TotalField(m, {p \in Places(m) : p[2] = i}, f)
            /\ cats = {} => macros_result = NoTotals

C13_Witness ==
    /\ macros_pc = "done"
    /\ DictHas(shopping_menu, "breakfast")
    /\ DishNames(shopping_menu, "breakfast") = <<"eggs", "toast">>
    /\ DishNames(shopping_menu, "lunch") = <<"oats">>
    /\ macros_result.per_day =
          << [day_index |-> 0, calories |-> 405, protein |-> 18, fat |-> 21, carbs |-> 33],
             [day_index |-> 1, calories |-> 160, protein |-> 0, fat |-> 2, carbs |-> 30] >>

RECURSIVE SumDays(_, _, _)
SumDays(per_day, f, i) ==
    IF i > Len(per_day) THEN 0 ELSE per_day[i][f] + SumDays(per_day, f, i + 1)

\* C14: each overall total is the sum of the per-day totals and the sum of
\* the field over every ingredient of every dish of every category, an
\* absent field counting 0; every total is a number.
C14_OverallIsSum ==
    macros_pc = "done" =>
        \A f \in MacroFields :
            /\ macros_result.overall[f] = SumDays(macros_result.per_day, f, 1)
            /\ macros_result.overall[f] = TotalField(shopping_menu, Places(shopping_menu), f)
            /\ macros_result.overall[f] \in Nat
            /\ \A i \in DOMAIN macros_result.per_day : macros_result.per_day[i][f] \in Nat

C14_Witness ==
    /\ macros_pc = "done"
    /\ DictHas(shopping_menu, "breakfast")
    /\ DishNames(shopping_menu, "breakfast") = <<"soup", "water">>
    /\ DishNames(shopping_menu, "lunch") = <<"eggs">>
    /\ Len(macros_result.per_day) = 2
    /\ macros_result.overall = [calories |-> 215, protein |-> 16, fat |-> 18, carbs |-> 1]

\* ------------------------------------- models.py: Course.from_dict
RECURSIVE AddFromDict(_, _, _)
\* models.py:105-107
AddFromDict(course0, ingredients_data, i) ==
    IF i > Len(ingredients_data) THEN course0
    ELSE AddFromDict(AddIngredient(course0,
                        IngredientFromDict(ingredients_data[i].k, ingredients_data[i].v)),
                     ingredients_data, i + 1)

\* Course.from_dict
CourseFromDict(name, course_type, data) ==
    AddFromDict(Course(name, course_type,
                       IF "description" \in DOMAIN data THEN data.description ELSE "",
                       <<>>),
                IngredientsData(data), 1)

\* the ingredients handed to add_ingredient
BuildIngredients ==
    { Ingredient(n, a, "g", m.calories, m.protein, m.fat, m.carbs) :
        n \in {"Oats", "oats", "eggs"}, a \in Amounts, m \in MacroValues }

InitModels ==
    /\ PlannerOff
    /\ ShoppingOff
    /\ MacrosOff
    /\ StorageOff
    /\ built \in { Course(n, t, ds, <<>>) :
                     n \in {"Eggs", "oats"}, t \in {"Lunch", "breakfast"},
                     ds \in {"", "Oatmeal"} }
    /\ copy = NoCourse
    /\ models_pc = "building"

\* one more add_ingredient call on the course
AddIngredientCall ==
    /\ models_pc = "building"
    /\ \E ing \in BuildIngredients : built' = AddIngredient(built, ing)
    /\ UNCHANGED <<copy, models_pc, shopvars, planvars, macrovars, storevars>>

\* Course.from_dict(course.name, course.course_type, course.to_dict())
RoundTrip ==
    /\ models_pc = "building"
    /\ copy' = CourseFromDict(built.name, built.course_type, CourseToDict(built))
    /\ models_pc' = "done"
    /\ UNCHANGED <<built, shopvars, planvars, macrovars, storevars>>

NextModels == AddIngredientCall \/ RoundTrip

SpecModels == InitModels /\ [][NextModels]_vars

\* C15: from_dict of a course's to_dict has the course's name, category and
\* description, the same ingredient keys, and for each ingredient the same
\* amount, unit and macro fields (absent stays absent, a value stays itself).
C15_RoundTrip ==
    models_pc = "done" =>
        /\ copy.name = built.name
        /\ copy.course_type = built.course_type
        /\ copy.description = built.description
        /\ Len(copy.ingredients) = Len(built.ingredients)
        /\ \A i \in 1..Len(built.ingredients) :
              /\ copy.ingredients[i].k = built.ingredients[i].k
              /\ \A f \in {"name", "amount", "unit"} \cup MacroFields :
                    copy.ingredients[i].v[f] = built.ingredients[i].v[f]

C15_Witness ==
    /\ models_pc = "done"
    /\ built.name = "eggs"
    /\ built.course_type = "lunch"
    /\ Len(built.ingredients) = 2
    /\ built.ingredients[1].v.protein = 0
    /\ built.ingredients[1].v.fat = None
    /\ built.ingredients[2].v.calories = None
    /\ built.ingredients[2].v.fat = 1
    /\ copy = built

\* ------------------------------------------- claims on the menu entries
\* the entry is the recipe with every amount and present macro multiplied
ScaledEntry(entry, recipe, servings) ==
    /\ entry.description = recipe.description
    /\ Len(entry.ingridients) = Len(recipe.ingredients)
    /\ \A i \in 1..Len(recipe.ingredients) :
          LET ing == recipe.ingredients[i].v
              data == entry.ingridients[i].v
          IN  /\ entry.ingridients[i].k = recipe.ingredients[i].k
              /\ data.amount = ing.amount * servings
              /\ data.unit = ing.unit
              /\ \A f \in MacroFields :
                    IF ing[f] = None THEN f \notin DOMAIN data
                    ELSE f \in DOMAIN data /\ data[f] = ing[f] * servings

\* C16: every entry of the menu is the catalog recipe of its category and
\* name scaled by servings, and the catalog recipes the planner draws from
\* stay what the catalog holds.
C16_EntriesScaled ==
    /\ \A t \in 1..Len(menu) : \A e \in 1..Len(menu[t].v) :
          /\ DictHas(catalog, menu[t].k)
          /\ \E r \in 1..Len(DictGet(catalog, menu[t].k)) :
                LET recipe == DictGet(catalog, menu[t].k)[r].v
                IN  /\ recipe.name = menu[t].v[e].k
                    /\ ScaledEntry(menu[t].v[e].v, recipe, args.servings)
    /\ \A t \in 1..Len(courses_by_type) :
          /\ DictHas(catalog, courses_by_type[t].k)
          /\ Range(courses_by_type[t].v)
                \subseteq Range(DictValues(DictGet(catalog, courses_by_type[t].k)))
    /\ InLoop => Range(type_available) \subseteq Range(AvailableCourses)

C16_Witness ==
    /\ Returned
    /\ args.servings = 2
    /\ DictHas(plans[1], "breakfast")
    /\ DictHas(DictGet(plans[1], "breakfast"), "eggs")
    /\ DictGet(DictGet(plans[1], "breakfast"), "eggs").ingridients[2] =
          [k |-> "butter",
           v |-> [amount |-> 20, unit |-> "g", calories |-> 150, protein |-> 0, fat |-> 16]]
    /\ DictGet(DictGet(catalog, "breakfast"), "eggs") = Eggs

\* ----------------------------------------------------------- storage.py
\* a file whose content json.load rejects (storage.py:25)
CorruptFile == [exists |-> TRUE, valid |-> FALSE, object |-> FALSE, data |-> EmptyDoc]

\* a file holding a JSON value that is not an object
ListFile == [exists |-> TRUE, valid |-> TRUE, object |-> FALSE, data |-> EmptyDoc]

\* a file holding a JSON object
JsonFile(doc) == [exists |-> TRUE, valid |-> TRUE, object |-> TRUE, data |-> doc]

\* storage.py:29, 'version' in data
HasVersion(data) == data.version # None \/ DictHas(data.members, "version")

\* storage.py:39-43 and 54-58
LoadCategories(course_data) ==
    [t \in 1..Len(course_data) |->
        [k |-> course_data[t].k,
         v |-> [j \in 1..Len(course_data[t].v) |->
                  [k |-> course_data[t].v[j].k,
                   v |-> CourseFromDict(course_data[t].v[j].k, course_data[t].k,
                                        course_data[t].v[j].v)]]]]

\* CourseStorage.save_courses: the file it writes
SaveCourses(courses) ==
    JsonFile([version |-> 1,
              members |-> << [k |-> "courses",
                              v |-> [t \in 1..Len(courses) |->
                                       [k |-> courses[t].k,
                                        v |-> [j \in 1..Len(courses[t].v) |->
                                                 [k |-> courses[t].v[j].k,
                                                  v |-> CourseToDict(courses[t].v[j].v)]]]]] >>])

\* CourseStorage._load_versioned_format
LoadVersionedFormat(f) ==
    [courses |-> LoadCategories(DictGetOr(f.data.members, "courses", <<>>)),
     file |-> f, writes |-> 0, raised |-> FALSE]

\* CourseStorage._load_legacy_format; data.items() of a value that is not
\* an object raises AttributeError
LoadLegacyFormat(f) ==
    IF ~f.object THEN [courses |-> <<>>, file |-> f, writes |-> 0, raised |-> TRUE]
    ELSE LET courses == LoadCategories(f.data.members)
         IN  [courses |-> courses, file |-> SaveCourses(courses), writes |-> 1,
              raised |-> FALSE]

\* storage.py:28-33
LoadParsed(f) ==
    IF f.object /\ HasVersion(f.data) THEN LoadVersionedFormat(f) ELSE LoadLegacyFormat(f)

LoadCoursesResetting(f) ==
    IF ~f.exists THEN [courses |-> <<>>, file |-> f, writes |-> 0, raised |-> FALSE]
    ELSE IF ~f.valid
         THEN [courses |-> <<>>, file |-> SaveCourses(<<>>), writes |-> 1, raised |-> FALSE]
         ELSE LoadParsed(f)

\* CourseStorage.load_courses: the catalog returned and the file afterwards
LoadCourses(f) ==
    IF ~f.exists \/ ~f.valid
    THEN [courses |-> <<>>, file |-> f, writes |-> 0, raised |-> FALSE]
    ELSE LoadParsed(f)

\* CourseStorage.add_course
AddCourse(f, new_course) ==
    LET l == LoadCourses(f)
        courses == IF DictHas(l.courses, new_course.course_type) THEN l.courses
                   ELSE DictSet(l.courses, new_course.course_type, <<>>)
        added == DictSet(courses, new_course.course_type,
                         DictSet(DictGet(courses, new_course.course_type),
                                 new_course.name, new_course))
    IN  IF l.raised THEN l
        ELSE [courses |-> added, file |-> SaveCourses(added),
              writes |-> l.writes + 1, raised |-> FALSE]

\* --------------------------------------------------------------- cli.py
\* a float() argument that is not a number
NotANumber == -2

\* str.split(',') on the ingredient arguments
Split(ing_str) ==
    CASE ing_str = "milk,200,ml" -> <<"milk", "200", "ml">>
      [] ing_str = "butter,10,g,75,0,8" -> <<"butter", "10", "g", "75", "0", "8">>
      [] ing_str = "oats,50,g, ,6,,32" -> <<"oats", "50", "g", " ", "6", "", "32">>
      [] ing_str = "milk,1" -> <<"milk", "1">>
      [] ing_str = "milk,abc,ml" -> <<"milk", "abc", "ml">>
      [] ing_str = "bread,2,pieces,160,x" -> <<"bread", "2", "pieces", "160", "x">>
      [] OTHER -> <<ing_str>>

ToFloatLenient(text) ==
    CASE text = "0" -> 0 [] text = "1" -> 1 [] text = "2" -> 2 [] text = "6" -> 6
      [] text = "8" -> 8 [] text = "10" -> 10 [] text = "32" -> 32 [] text = "50" -> 50
      [] text = "75" -> 75 [] text = "160" -> 160 [] text = "200" -> 200
      [] OTHER -> 0

\* float(text): the number, or NotANumber where float raises ValueError
ToFloat(text) ==
    CASE text = "0" -> 0 [] text = "1" -> 1 [] text = "2" -> 2 [] text = "6" -> 6
      [] text = "8" -> 8 [] text = "10" -> 10 [] text = "32" -> 32 [] text = "50" -> 50
      [] text = "75" -> 75 [] text = "160" -> 160 [] text = "200" -> 200
      [] OTHER -> NotANumber

\* cli.py:33-55, one optional value: float(x.strip()) if x.strip() else None
ParseOptional(parts, i) ==
    IF Len(parts) < i THEN None
    ELSE IF Strip(parts[i]) = "" THEN None
    ELSE ToFloat(Strip(parts[i]))

\* parse_ingredient_string: ok is FALSE where it raises ValueError
ParseIngredientString(ing_str) ==
    LET parts == Split(ing_str)
        failed == [ok |-> FALSE, ingredient |-> Ingredient("", 0, "", None, None, None, None)]
    IN  IF Len(parts) < 3 THEN failed
        ELSE LET amount == ToFloat(Strip(parts[2]))
                 calories == ParseOptional(parts, 4)
                 protein == ParseOptional(parts, 5)
                 fat == ParseOptional(parts, 6)
                 carbs == ParseOptional(parts, 7)
             IN  IF NotANumber \in {amount, calories, protein, fat, carbs} THEN failed
                 ELSE [ok |-> TRUE,
                       ingredient |-> Ingredient(Strip(parts[1]), amount, Strip(parts[3]),
                                                 calories, protein, fat, carbs)]

RECURSIVE ParseLoop(_, _, _)
\* cli.py:73-79
ParseLoop(new_course, ingredient, i) ==
    IF i > Len(ingredient) THEN [ok |-> TRUE, course |-> new_course]
    ELSE LET parsed == ParseIngredientString(ingredient[i])
         IN  IF ~parsed.ok THEN [ok |-> FALSE, course |-> new_course]
             ELSE ParseLoop(AddIngredient(new_course, parsed.ingredient), ingredient, i + 1)

\* ------------------------------------------------ the commands on a file
MaxCalls == 2

IngredientStrings ==
    { "milk,200,ml", "butter,10,g,75,0,8", "oats,50,g, ,6,,32",
      "milk,1", "milk,abc,ml", "bread,2,pieces,160,x" }

\* the --ingredient lists: none, one string, or a valid string and one more
IngredientArgs ==
    {<<>>} \cup {<<x>> : x \in IngredientStrings}
           \cup {<<"milk,200,ml", x>> : x \in IngredientStrings}

AddArgs == [name : {"", "Oats"}, type : {"Lunch"}, ingredient : IngredientArgs]

\* a dish of a file written by an older version: other spelling of the
\* member, no description, names not in lower case
OldDish ==
    [ingredients |-> <<[k |-> "Eggs", v |-> [amount |-> 1, unit |-> "g", protein |-> 0]]>>]

LegacyDocs ==
    { EmptyDoc,
      [version |-> None,
       members |-> << [k |-> "breakfast",
                       v |-> <<[k |-> "eggs", v |-> CourseToDict(Eggs)],
                               [k |-> "oats", v |-> CourseToDict(Oats)]>>],
                      [k |-> "lunch", v |-> <<[k |-> "oats", v |-> CourseToDict(OatsLunch)]>>] >>],
      [version |-> None,
       members |-> << [k |-> "Lunch", v |-> <<[k |-> "Oats", v |-> OldDish]>>] >>],
      [version |-> None,
       members |-> << [k |-> "version", v |-> <<[k |-> "eggs", v |-> CourseToDict(Eggs)]>>] >>] }

Files ==
    {MissingFile, CorruptFile, ListFile}
        \cup {JsonFile(doc) : doc \in LegacyDocs}
        \cup {SaveCourses(c) : c \in Catalogs \cup {<<>>}}
        \cup {JsonFile([version |-> 1, members |-> <<>>])}

InitStorage ==
    /\ PlannerOff
    /\ ShoppingOff
    /\ MacrosOff
    /\ ModelsOff
    /\ file \in Files
    /\ StorageIdle

\* a command that calls CourseStorage.load_courses
LoadCall ==
    /\ commands < MaxCalls
    /\ LET l == LoadCourses(file)
       IN  /\ file' = l.file
           /\ loaded' = l.courses
           /\ writes' = l.writes
           /\ raised' = l.raised
    /\ before' = file
    /\ last' = "load"
    /\ exit_status' = None
    /\ add_args' = NoArgs
    /\ commands' = commands + 1
    /\ UNCHANGED <<shopvars, planvars, macrovars, modelvars>>

\* cmd_add
CmdAdd ==
    /\ commands < MaxCalls
    /\ \E a \in AddArgs :
          /\ add_args' = a
          /\ IF a.name = "" \/ a.type = "" \/ a.ingredient = <<>>
             THEN /\ exit_status' = 1
                  /\ UNCHANGED <<file, loaded>>
                  /\ writes' = 0
                  /\ raised' = FALSE
             ELSE LET parsed == ParseLoop(Course(a.name, a.type, "", <<>>), a.ingredient, 1)
                  IN  IF ~parsed.ok
                      THEN /\ exit_status' = 1
                           /\ UNCHANGED <<file, loaded>>
                           /\ writes' = 0
                           /\ raised' = FALSE
                      ELSE LET r == AddCourse(file, parsed.course)
                           IN  /\ file' = r.file
                               /\ loaded' = r.courses
                               /\ writes' = r.writes
                               /\ raised' = r.raised
                               /\ exit_status' = IF r.raised THEN None ELSE 0
    /\ before' = file
    /\ last' = "add"
    /\ commands' = commands + 1
    /\ UNCHANGED <<shopvars, planvars, macrovars, modelvars>>

NextStorage == LoadCall \/ CmdAdd

SpecStorage == InitStorage /\ [][NextStorage]_vars

LegacyShape(f) == f.valid /\ f.object /\ f.data.version = None

\* the load returned every category and recipe of the legacy document,
\* wrote the canonical document of version 1, and a second load returns
\* the same catalog without touching the file
Upgraded ==
    /\ ~raised
    /\ DictKeys(loaded) = DictKeys(before.data.members)
    /\ \A t \in DictKeys(loaded) :
          DictKeys(DictGet(loaded, t)) = DictKeys(DictGet(before.data.members, t))
    /\ file.valid /\ file.object /\ file.data.version = 1
    /\ DictKeys(file.data.members) = {"courses"}
    /\ DictKeys(DictGet(file.data.members, "courses")) = DictKeys(before.data.members)
    /\ \A t \in DictKeys(before.data.members) :
          DictKeys(DictGet(DictGet(file.data.members, "courses"), t))
              = DictKeys(DictGet(before.data.members, t))
    /\ LoadCourses(file).courses = loaded
    /\ LoadCourses(file).file = file
    /\ LoadCourses(file).writes = 0

\* C18 (as claimed): loading a legacy file, whatever its categories are
\* named, returns all of it and rewrites it as version 1 so that a second
\* load agrees and writes nothing; loading a canonical file never writes.
C18_LegacyUpgraded ==
    last = "load" =>
        /\ LegacyShape(before) => Upgraded
        /\ (before.valid /\ before.object /\ before.data.version # None)
              => (file = before /\ writes = 0)

\* what does hold: the same for the legacy files in which no category is
\* named version
LegacyUpgradedUnlessVersionCategory ==
    last = "load" =>
        /\ (LegacyShape(before) /\ ~DictHas(before.data.members, "version")) => Upgraded
        /\ (before.valid /\ before.object /\ before.data.version # None)
              => (file = before /\ writes = 0)

\* the ingredient arguments that follow name,amount,unit[,calories,protein,fat,carbs]
WellFormed == {"milk,200,ml", "butter,10,g,75,0,8", "oats,50,g, ,6,,32"}

Malformed(ingredient) == \E i \in DOMAIN ingredient : ingredient[i] \notin WellFormed

\* the file holds the recipe of the last add under its category and name
RecipeWritten ==
    /\ file.valid /\ file.object /\ file.data.version = 1
    /\ DictHas(file.data.members, "courses")
    /\ LET cats == DictGet(file.data.members, "courses")
       IN  /\ DictHas(cats, Lower(add_args.type))
           /\ DictHas(DictGet(cats, Lower(add_args.type)), Lower(add_args.name))
           /\ Len(DictGet(DictGet(cats, Lower(add_args.type)),
                          Lower(add_args.name)).ingridients) >= 1

\* C19: an add with a malformed ingredient string returns 1 and leaves the
\* file as it was, also after well-formed strings; the recipe is written
\* and 0 returned only when every string parses.
C19_MalformedAddLeavesFile ==
    last = "add" =>
        /\ Malformed(add_args.ingredient)
              => (exit_status = 1 /\ file = before /\ writes = 0 /\ ~raised)
        /\ (exit_status = 0 \/ writes > 0 \/ file # before)
              => (~Malformed(add_args.ingredient) /\ exit_status = 0 /\ RecipeWritten)

C19_Witness ==
    /\ last = "add"
    /\ add_args.ingredient = <<"milk,200,ml", "milk,abc,ml">>
    /\ add_args.name = "Oats"
    /\ exit_status = 1
    /\ LegacyShape(before)
    /\ Len(before.data.members) = 2
    /\ file = before

\* C20 (as claimed): with no_reuse no dish name is placed twice in the
\* whole plan, whatever the categories of the two placements, so that no
\* name is a key of two categories of the returned menu.
C20_NoReuseAcrossCategories ==
    args.no_reuse =>
        /\ \A i, j \in 1..Len(placed) : i < j => placed[i].name # placed[j].name
        /\ \A p \in 1..Len(plans) : \A t, u \in 1..Len(plans[p]) :
              t # u => DictKeys(plans[p][t].v) \cap DictKeys(plans[p][u].v) = {}

\* ---------------------------------------------- claims on the operator
\* C21: an operator who rejects every proposal ends each day's selection
\* after finitely many prompts: whenever the loop is prompting, it later
\* leaves the prompt.
C21_RejectingEnds == Prompting ~> ~Prompting

\* C22: an unrecognised response asks again about the same proposal for
\* the same day and category: nothing is placed, the pool, the counters
\* and the random source are as before, and no error is raised.
C22_UnrecognizedReprompts ==
    [][pc' = "reprompt" =>
          /\ Prompting
          /\ course # NoCourse
          /\ UNCHANGED <<course, day, ti, menu, type_available, repeat_counts,
                         used_courses, rng, placed, plans, courses_by_type>>]_vars

C22_Witness ==
    /\ pc = "reprompt"
    /\ args.seed # None
    /\ args.max_repeats # None
    /\ day > 0
    /\ placed # <<>>

\* C23: skipping a day adds no entry to the menu and leaves the pool of
\* the category and every repeat counter as they were; the skipped
\* proposal is still in the pool for the later days.
C23_SkipLeavesPoolAndCounters ==
    [][(Prompting /\ pc' \in {"day", "type"}) =>
          /\ UNCHANGED <<menu, type_available, repeat_counts, used_courses, placed>>
          /\ course' = NoCourse
          /\ ListContains(type_available', course)]_vars

\* a day was skipped in a call with both limits and the next day is
\* being proposed
C23_Witness ==
    /\ Prompting
    /\ day = 1
    /\ args.no_reuse
    /\ args.max_repeats # None
    /\ ~\E i \in 1..Len(placed) : placed[i].type = CurrentType /\ placed[i].day = 0

\* ------------------------------------------------ claims on the seed
\* C24: a call with a seed sets the random source from the seed when it
\* starts, before any draw; from then on every step of the call leaves
\* the source alone or advances it by one draw, and the first draw of a
\* day and every re-draw after a rejection advance it.
C24_SeededOnce ==
    [][(args.seed # None) =>
          /\ (pc = "idle" => rng' = SeedState(args.seed))
          /\ (pc # "idle" => rng' \in {rng, Step(rng)})
          /\ (pc = "day" /\ pc' \in {"prompt", "check"} => rng' = Step(rng))
          /\ (Prompting /\ pc' = "prompt" => rng' = Step(rng))]_vars

\* a seeded call with an operator and a repeat limit, after two placements
C24_Witness ==
    /\ args.seed # None
    /\ args.interactive
    /\ args.max_repeats # None
    /\ ~args.no_reuse
    /\ Len(placed) >= 2
    /\ pc = "prompt"
    /\ rng # SeedState(args.seed)

\* ------------------------------------------- claims on repeated recipes
\* names placed so far under a category
PlacedNames(course_type) ==
    {placed[i].name : i \in {j \in 1..Len(placed) : placed[j].type = course_type}}

\* C25: when reuse is permitted, the keys of a category are the distinct
\* names placed under it, one key each, and every entry is the recipe
\* scaled by servings once however often it was placed.
C25_RepeatsCollapse ==
    ~args.no_reuse =>
        \A t \in 1..Len(menu) :
            LET entries == menu[t].v
                recipes == DictValues(DictGet(catalog, menu[t].k))
            IN  /\ {entries[e].k : e \in 1..Len(entries)} = PlacedNames(menu[t].k)
                /\ Len(entries) = Cardinality(PlacedNames(menu[t].k))
                /\ \A e \in 1..Len(entries) :
                      \E r \in 1..Len(recipes) :
                          /\ recipes[r].name = entries[e].k
                          /\ ScaledEntry(entries[e].v, recipes[r], args.servings)

\* a recipe was placed on two days of a returned plan for two servings
C25_Witness ==
    /\ Returned
    /\ ~args.no_reuse
    /\ args.servings = MaxServings
    /\ \E i, j \in 1..Len(placed) :
          /\ i < j
          /\ placed[i].type = placed[j].type
          /\ placed[i].name = placed[j].name
    /\ \E t \in 1..Len(plans[1]) : Len(plans[1][t].v) >= 2

\* --------------------------------------------------- cmd_plan (cli.py)
\* the plan command without an operator
InitCmdPlan ==
    /\ PlannerInit(Catalogs, 1, {a \in ArgSets : ~a.interactive})
    /\ ShoppingOff
    /\ RestOff

\* cli.py:131: the totals of the menu generate_plan returned
CmdPlanMacros ==
    /\ Returned
    /\ macros_pc = "off"
    /\ macros_result' = CalculatePlanMacros(plans[1])
    /\ macros_pc' = "done"
    /\ UNCHANGED <<shopvars, planvars, modelvars, storevars>>

NextCmdPlan ==
    \/ GeneratePlan
    \/ ForCourseType
    \/ SelectCourse
    \/ PlaceCourse
    \/ ReturnMenu
    \/ CmdPlanMacros

SpecCmdPlan == InitCmdPlan /\ [][NextCmdPlan]_vars

\* ------------------------------------------------ claims on cmd_plan
RECURSIVE RecipeField(_, _, _)
\* the sum of one macro over the first n ingredients of a recipe
RecipeField(recipe, f, n) ==
    IF n = 0 THEN 0
    ELSE RecipeField(recipe, f, n - 1)
            + (IF recipe.ingredients[n].v[f] = None THEN 0
               ELSE recipe.ingredients[n].v[f])

RECURSIVE PlacedField(_, _, _)
\* the sum of one macro over the recipes among the first n placements that
\* were placed on day d, for the servings of the call
PlacedField(d, f, n) ==
    IF n = 0 THEN 0
    ELSE PlacedField(d, f, n - 1)
            + (IF placed[n].day = d
               THEN LET recipe == DictGet(DictGet(catalog, placed[n].type), placed[n].name)
                    IN  args.servings * RecipeField(recipe, f, Len(recipe.ingredients))
               ELSE 0)

\* C26: for a plan generated with no_reuse, without an operator and without
\* a repeat limit, element i of per_day holds the summed macros of the
\* recipes placed on day i in all categories, and exactly the days on which
\* something was placed have an element.
C26_PerDayIsPlacedDay ==
    (macros_pc = "done" /\ args.no_reuse /\ args.max_repeats = None) =>
        LET per_day == macros_result.per_day
        IN  \A d \in 0..(args.days - 1) :
              IF \E n \in 1..Len(placed) : placed[n].day = d
              THEN /\ d < Len(per_day)
                   /\ per_day[d + 1].day_index = d
                   /\ \A f \in MacroFields :
                         per_day[d + 1][f] = PlacedField(d, f, Len(placed))
              ELSE d >= Len(per_day)

\* two categories of different size and a day nothing was placed on
C26_Witness ==
    /\ macros_pc = "done"
    /\ args.no_reuse
    /\ args.max_repeats = None
    /\ args.servings = MaxServings
    /\ Len(plans[1]) >= 2
    /\ Len(macros_result.per_day) = 2
    /\ args.days > 2
    /\ macros_result.per_day[1].calories > macros_result.per_day[2].calories

\* ------------------------------------- claims on the operator's choice
\* C27: with an operator, the recipe placed on a day is the proposal the
\* operator accepted (or kept for want of another) in that day's prompt.
C27_PlacedWasShown ==
    [][(args.interactive /\ Len(placed') > Len(placed)) =>
          placed'[Len(placed')].name = course.name]_vars

\* C28: for the same catalog, parameters and seed, the call with an
\* operator who accepts every first proposal returns the menu the call
\* without an operator returned.
C28_AcceptAllIsNonInteractive ==
    (Len(plans) = 2 /\ args.interactive) => plans[2] = plans[1]

\* both plans are returned, with two categories and a repeat limit at work
C28_Witness ==
    /\ Len(plans) = 2
    /\ args.interactive
    /\ args.max_repeats = 1
    /\ args.days = MaxDays
    /\ Len(plans[2]) >= 2
    /\ \E t \in 1..Len(plans[2]) : Len(plans[2][t].v) >= 2

\* --------------------------------------- claims on the order of a menu
\* the same ingredient occurrences stored the other way round: categories
\* and the dishes of each category in reverse order
Reversed(s) == [i \in 1..Len(s) |-> s[Len(s) + 1 - i]]

ReversedMenu(m) ==
    Reversed([t \in 1..Len(m) |-> [k |-> m[t].k, v |-> Reversed(m[t].v)]])

\* how often a row occurs in a list of rows
RowCount(rows, row) == Cardinality({i \in 1..Len(rows) : rows[i] = row})

SameRows(a, b) ==
    /\ Len(a) = Len(b)
    /\ \A i \in 1..Len(a) : RowCount(a, a[i]) = RowCount(b, a[i])

\* C29 (as claimed): the rows of a menu and the rows of the same
\* occurrences stored in another order are the same up to order, also when
\* a name occurs with several units.
C29_RowsIndependentOfOrder ==
    shopping_pc = "done" =>
        SameRows(shopping_list, AggregateIngredients(ReversedMenu(shopping_menu)))

\* the same for menus that use every name with a single unit
RowsIndependentOfOrderSingleUnits ==
    (shopping_pc = "done" /\ SingleUnits(shopping_menu)) =>
        SameRows(shopping_list, AggregateIngredients(ReversedMenu(shopping_menu)))

\* ------------------------------------------ claims on empty categories
\* C30 (as claimed): every category of a returned menu holds at least one
\* entry, whatever the operator answered.
C30_NoEmptyCategory ==
    Returned => \A t \in 1..Len(plans[1]) : plans[1][t].v # <<>>

====
